---- MODULE Spec2Model ----
(***************************************************************************)
(* A model of the geodata-br converter core: the territorial data tree and *)
(* its toDict serializer (dtb/core/entities.py), the retrieve, parse and    *)
(* export operations of TerritorialBase, the XML encoder                   *)
(* (lib/geodatabr/encoders/xml.py), the MessagePack exporter               *)
(* (lib/places/exporters/msgpack.py) and the Bytes, List and Singleton     *)
(* types (geodatabr/core/types.py).                                        *)
(*                                                                         *)
(* Python values are records tagged with their type.  entities.py is       *)
(* Python 2 code: "str" is a byte string and "unicode" a text string.      *)
(* types.py is Python 3 code: "str" is a text string and "bytes" a byte    *)
(* string.  A string's content is the sequence of its bytes (or code       *)
(* points), so that str(), unicode() and struct packing are computed.      *)
(***************************************************************************)
EXTENDS Integers, Sequences, FiniteSets, TLC

VARIABLES
    data_dict,      \* TerritorialData._dict: table name -> list of rows
    data_rawdata,   \* TerritorialData._rawdata
    parsed,         \* whether TerritorialBase.parse has replaced the tree
    ret,            \* the last call on the tree: operation, arguments, outcome
    files,          \* the file system seen by export: file name -> content
    stdout,         \* what has been written to sys.stdout, in order
    exporterCalls,  \* how many exporters have been instantiated
    nexports,       \* how many times export has been called
    exportRet,      \* the last export call: arguments and outcome
    byteorder,      \* the platform's native byte order (sys.byteorder)
    buf,            \* Bytes: the buffer's bytes
    pos,            \* Bytes: the stream position (one cursor, io.BytesIO)
    nwrites,        \* Bytes: write calls made on the buffer so far
    nseeks,         \* Bytes: seek calls made on the buffer so far
    bytesRet,       \* Bytes: the last call and its outcome
    script,         \* Bytes: how far the calls so far follow Script; -1: not
    items,          \* List: the items of the list
    listRet,        \* List: the last call, the list before it and its outcome
    nlistops,       \* List: calls made on the list so far
    own,            \* Singleton: class -> the _instance set on that class, or 0
    objects,        \* Singleton: the objects constructed so far, by their class
    runs,           \* Singleton: class -> how often its constructor has run
    singletonRet,   \* Singleton: the last call and its outcome
    ncalls,         \* Singleton: constructor calls made so far
    cache,          \* TerritorialBase.cache_file: its content, or None if absent
    ndownloads,     \* downloads started since the cache file was last deleted
    nretrieves,     \* calls of TerritorialBase.retrieve so far
    retrieveRet,    \* the last retrieve call and its outcome
    packRet,        \* MessagePack: the structure packed last and its outcome
    npacks          \* MessagePack: calls of the exporter so far

treeVars == <<data_dict, data_rawdata, parsed, ret>>
exportVars == <<files, stdout, exporterCalls, nexports, exportRet>>
bytesVars == <<byteorder, buf, pos, nwrites, nseeks, bytesRet, script>>
listVars == <<items, listRet, nlistops>>
singletonVars == <<own, objects, runs, singletonRet, ncalls>>
cacheVars == <<cache, ndownloads, nretrieves, retrieveRet>>
packVars == <<packRet, npacks>>
typesVars == <<listVars, singletonVars>>
vars == <<treeVars, exportVars, bytesVars, typesVars, cacheVars, packVars>>

-----------------------------------------------------------------------------
(* Bounds of the model. *)

\* Rows of a parsed tree, all tables together.
MaxRows == 2

-----------------------------------------------------------------------------
(* Python values. *)

None == [t |-> "NoneType"]
PyInt(n) == [t |-> "int", v |-> n]
Str(s) == [t |-> "str", v |-> s]
Unicode(s) == [t |-> "unicode", v |-> s]

\* 7-bit content: what the ascii codec accepts.
IsAscii(s) == \A i \in 1..Len(s) : s[i] < 128

RECURSIVE Digits(_)
\* The decimal digits of a natural number, as character codes.
Digits(n) == IF n < 10 THEN <<48 + n>> ELSE Digits(n \div 10) \o <<48 + (n % 10)>>

\* Python 2 str(): of an int its decimal text as a byte string; a str is
\* returned as it is.
str(x) ==
    CASE x.t = "int" -> Str(IF x.v < 0 THEN <<45>> \o Digits(-x.v) ELSE Digits(x.v))
      [] x.t = "str" -> x
      [] OTHER -> Str(x.v)

\* Python 2 unicode() of a byte string decodes it with the ascii codec and
\* raises UnicodeDecodeError on a byte above 127.
unicode(x) ==
    IF IsAscii(x.v) THEN [exc |-> "none", value |-> Unicode(x.v)]
    ELSE [exc |-> "UnicodeDecodeError", value |-> None]

-----------------------------------------------------------------------------
(* collections.OrderedDict: a sequence of <<key, value>> pairs with distinct *)
(* keys, in insertion order.                                                 *)

OdKeys(od) == [i \in 1..Len(od) |-> od[i][1]]
OdHas(od, k) == \E i \in 1..Len(od) : od[i][1] = k
OdGet(od, k) == od[CHOOSE i \in 1..Len(od) : od[i][1] = k][2]

\* od[k] = v: a present key keeps its place and takes the new value, a new key
\* goes last.
OdSet(od, k, v) ==
    IF OdHas(od, k)
    THEN [i \in 1..Len(od) |-> IF od[i][1] = k THEN <<k, v>> ELSE od[i]]
    ELSE Append(od, <<k, v>>)

\* del od[k]
OdDel(od, k) == SelectSeq(od, LAMBDA p : p[1] # k)

-----------------------------------------------------------------------------
(* The entity schema. *)

\* The entities sorted by table name instead of by dependency.
entitiesByName ==
    <<"distrito", "mesorregiao", "microrregiao", "municipio", "subdistrito", "uf">>

\* TerritorialData.entities, each entity by its table name (AbstractBase.table).
entities == <<"uf", "mesorregiao", "microrregiao", "municipio", "distrito", "subdistrito">>

TableNames == {entities[i] : i \in 1..Len(entities)}

\* AbstractBase.columns: the column names in declaration order.
columns(table) ==
    CASE table = "uf" -> <<"id", "nome">>
      [] table = "mesorregiao" -> <<"id", "id_uf", "nome">>
      [] table = "microrregiao" -> <<"id", "id_mesorregiao", "id_uf", "nome">>
      [] table = "municipio" ->
            <<"id", "id_microrregiao", "id_mesorregiao", "id_uf", "nome">>
      [] table = "distrito" ->
            <<"id", "id_municipio", "id_microrregiao", "id_mesorregiao", "id_uf", "nome">>
      [] table = "subdistrito" ->
            <<"id", "id_distrito", "id_municipio", "id_microrregiao", "id_mesorregiao",
              "id_uf", "nome">>

\* The ForeignKey declarations: the table a column references.
foreignKeys(table) ==
    [c \in {columns(table)[i] : i \in 1..Len(columns(table))} \ {"id", "nome"} |->
        CASE c = "id_uf" -> "uf"
          [] c = "id_mesorregiao" -> "mesorregiao"
          [] c = "id_microrregiao" -> "microrregiao"
          [] c = "id_municipio" -> "municipio"
          [] c = "id_distrito" -> "distrito"]

-----------------------------------------------------------------------------
(* TerritorialData.toDict *)

Flags == [strKeys : BOOLEAN, forceUnicode : BOOLEAN, includeKey : BOOLEAN]

\* ColumnValue with the type test dropped: every value is coerced.
ColumnValueCoerceAll(row, column, forceUnicode) ==
    IF column \notin DOMAIN row THEN [exc |-> "KeyError", value |-> None]
    ELSE IF forceUnicode THEN unicode(str(row[column]))
    ELSE [exc |-> "none", value |-> row[column]]

\* Lines 240-243: the value stored for one column of a row.
ColumnValue(row, column, forceUnicode) ==
    IF column \notin DOMAIN row THEN [exc |-> "KeyError", value |-> None]
    ELSE IF forceUnicode /\ row[column].t = "str" THEN unicode(row[column])
    ELSE [exc |-> "none", value |-> row[column]]

RECURSIVE RowDataFrom(_, _, _, _, _)
\* Lines 237-243: row_data, a new OrderedDict filled column by column.
RowDataFrom(row, cols, i, acc, forceUnicode) ==
    IF i > Len(cols) THEN [exc |-> "none", value |-> acc]
    ELSE LET cv == ColumnValue(row, cols[i], forceUnicode)
         IN  IF cv.exc # "none" THEN cv
             ELSE RowDataFrom(row, cols, i + 1, OdSet(acc, cols[i], cv.value), forceUnicode)

\* Line 245: the row's key in its table.
RowId(row_data, strKeys) ==
    IF strKeys THEN str(OdGet(row_data, "id")) ELSE OdGet(row_data, "id")

\* StripKey with the test inverted.
StripKeyInverted(row_data, includeKey) ==
    IF includeKey THEN OdDel(row_data, "id") ELSE row_data

\* Lines 247-248: the primary key is deleted from row_data unless it is kept.
StripKey(row_data, includeKey) ==
    IF ~includeKey THEN OdDel(row_data, "id") ELSE row_data

\* Line 250: the row enters its table under its key.
PutRow(table_dict, row_id, row_data) == OdSet(table_dict, row_id, row_data)

RECURSIVE TableDictFrom(_, _, _, _, _)
\* Lines 236-250: the loop over the rows of one table.
TableDictFrom(table, rows, i, acc, flags) ==
    IF i > Len(rows) THEN [exc |-> "none", value |-> acc]
    ELSE LET rd == RowDataFrom(rows[i], columns(table), 1, <<>>, flags.forceUnicode)
         IN  IF rd.exc # "none" THEN rd
             ELSE TableDictFrom(table, rows, i + 1,
                      PutRow(acc, RowId(rd.value, flags.strKeys),
                             StripKey(rd.value, flags.includeKey)),
                      flags)

\* SkipTable without the test: no table is skipped.
SkipTableNever(rows) == FALSE

\* Lines 231-232: a table whose row list is empty is skipped.
SkipTable(rows) == rows = <<>>

RECURSIVE ToDictFrom(_, _, _, _)
\* Lines 230-252: the loop over the entities, in their declared order.
ToDictFrom(tree, i, acc, flags) ==
    IF i > Len(entities) THEN [exc |-> "none", value |-> acc]
    ELSE LET table == entities[i]
         IN  IF table \notin DOMAIN tree THEN [exc |-> "KeyError", value |-> None]
             ELSE IF SkipTable(tree[table]) THEN ToDictFrom(tree, i + 1, acc, flags)
             ELSE LET td == TableDictFrom(table, tree[table], 1, <<>>, flags)
                  IN  IF td.exc # "none" THEN td
                      ELSE ToDictFrom(tree, i + 1, OdSet(acc, table, td.value), flags)

\* toDict(strKeys, forceUnicode, includeKey): the mapping returned, or the
\* exception raised.
toDict(tree, flags) == ToDictFrom(tree, 1, <<>>, flags)

\* StoredRowAfter had row_data been the stored row itself (row_data = row)
\* instead of a new OrderedDict: the deletion of line 248 reaches the tree.
StoredRowAliased(row, flags) ==
    IF ~flags.includeKey THEN [c \in DOMAIN row \ {"id"} |-> row[c]] ELSE row

\* What a stored row is after toDict has handled it: row_data is an
\* OrderedDict of its own (line 237), so the deletion of line 248 does not
\* reach the stored row.
StoredRowAfter(row, flags) == row

\* The tree after a toDict call that did not raise.
TreeAfterToDict(tree, flags) ==
    [t \in DOMAIN tree |-> [i \in 1..Len(tree[t]) |-> StoredRowAfter(tree[t][i], flags)]]

-----------------------------------------------------------------------------
(* The trees a parser hands over.  The parsers are not part of the modelled *)
(* sources: a parsed tree is an input, any list of rows per table.          *)

NomeAscii == Str(<<115, 112>>)                \* 'sp'
NomeUtf8 == Str(<<83, 195, 163, 111>>)        \* 'S\xc3\xa3o', a utf-8 byte string
NomeUnicode == Unicode(<<83, 227, 111>>)      \* u'S\xe3o'

\* The payloads of a row: its name and the key its foreign-key columns hold.
Payloads == {<<NomeAscii, 1>>, <<NomeUtf8, 1>>, <<NomeUnicode, 2>>}

\* A row of the given table.
MkRow(table, id, payload) ==
    [c \in {columns(table)[i] : i \in 1..Len(columns(table))} |->
        IF c = "id" THEN PyInt(id)
        ELSE IF c = "nome" THEN payload[1]
        ELSE PyInt(payload[2])]

\* The primary keys a row may carry: two, so that rows can agree or differ.
RowIds == {1, 2}

\* A record delivered by the parser: the entity (by index) and the row.  The
\* three upper levels take every payload, the three lower ones the first.
Recs ==
    {<<k, id, p>> : k \in 1..3, id \in RowIds, p \in Payloads}
    \cup {<<k, id, <<NomeAscii, 1>>>> : k \in 4..Len(entities), id \in RowIds}

\* The records in entity order; rows of one entity in any order.
RecSeqs ==
    UNION {{s \in [1..n -> Recs] : \A i \in 1..(n - 1) : s[i][1] <= s[i + 1][1]}
           : n \in 0..MaxRows}

RECURSIVE RowsOf(_, _, _)
RowsOf(recs, k, i) ==
    IF i > Len(recs) THEN <<>>
    ELSE IF recs[i][1] = k
         THEN <<MkRow(entities[k], recs[i][2], recs[i][3])>> \o RowsOf(recs, k, i + 1)
         ELSE RowsOf(recs, k, i + 1)

\* A parsed tree holds a row list for every entity.
TreeOf(recs) ==
    [t \in TableNames |-> RowsOf(recs, CHOOSE k \in 1..Len(entities) : entities[k] = t, 1)]

ParsedTrees == {TreeOf(recs) : recs \in RecSeqs}

\* The raw bytes a source file may hold.
RawInputs == {<<80, 75>>}   \* 'PK'

NoCall == [op |-> "none"]

-----------------------------------------------------------------------------
(* The state after construction. *)

\* TerritorialData.__init__ (lines 211-221)
InitTree ==
    /\ data_dict = <<>>
    /\ data_rawdata = None
    /\ parsed = FALSE
    /\ ret = NoCall

InitExport ==
    /\ files = <<>>
    /\ stdout = <<>>
    /\ exporterCalls = 0
    /\ nexports = 0
    /\ exportRet = NoCall

\* A new Bytes(): an empty io.BytesIO at position 0.
InitBytes ==
    /\ buf = <<>>
    /\ pos = 0
    /\ nwrites = 0
    /\ nseeks = 0
    /\ bytesRet = NoCall
    /\ script = 0

\* List(): an empty list, no call made.
InitList ==
    /\ listRet = NoCall
    /\ nlistops = 0

\* No class with the Singleton metaclass has been called.
InitSingleton ==
    /\ own = [c \in {"Base", "Derived", "Other"} |-> 0]
    /\ objects = <<>>
    /\ runs = [c \in {"Base", "Derived", "Other"} |-> 0]
    /\ singletonRet = NoCall
    /\ ncalls = 0

\* No retrieve has been called; the cache file does not exist.
InitCache ==
    /\ cache = None
    /\ ndownloads = 0
    /\ nretrieves = 0
    /\ retrieveRet = NoCall

\* No exporter has been called.
InitPack ==
    /\ packRet = NoCall
    /\ npacks = 0

\* What every specification starts from, the list and the byte order apart.
InitRest ==
    InitTree /\ InitExport /\ InitBytes /\ InitList /\ InitSingleton /\ InitCache
    /\ InitPack

Init == InitRest /\ items = <<>> /\ byteorder = "little"

-----------------------------------------------------------------------------
(* Operations on the tree. *)

\* TerritorialData.load (lines 223-224)
Load ==
    /\ ~parsed
    /\ \E rawdata \in RawInputs :
          /\ data_rawdata' = Str(rawdata)
          /\ ret' = [op |-> "load", exc |-> "none"]
    /\ UNCHANGED <<data_dict, parsed, exportVars, bytesVars, typesVars, cacheVars, packVars>>

\* What a parser may raise: its own error, or any other exception.
ParserErrors ==
    {[exc |-> "ParseError", message |-> "Unexpected sheet layout"],
     [exc |-> "KeyError", message |-> "nome"]}

\* TerritorialBase.parse (lines 346-355): the tree is replaced by the one the
\* parser returns; any failure of the parser is raised as a new Exception.
\* The pipeline parses once, and a parser builds its tree from the raw bytes
\* loaded before.
Parse ==
    /\ ~parsed
    /\ \/ \E tree \in ParsedTrees :
             /\ data_rawdata # None
             /\ data_dict' = tree
             /\ parsed' = TRUE
             /\ ret' = [op |-> "parse", exc |-> "none"]
       \/ \E raised \in ParserErrors :
             /\ ret' = [op |-> "parse", exc |-> "Exception",
                        message |-> "Failed to parse data using the given parser",
                        raised |-> raised]
             /\ UNCHANGED <<data_dict, parsed>>
    /\ UNCHANGED <<data_rawdata, exportVars, bytesVars, typesVars, cacheVars, packVars>>

\* A call of TerritorialData.toDict with any flags.
ToDictCall ==
    /\ \E flags \in Flags :
          LET r == toDict(data_dict, flags)
          IN  /\ ret' = [op |-> "toDict", flags |-> flags, exc |-> r.exc, value |-> r.value]
              /\ data_dict' = IF r.exc = "none" THEN TreeAfterToDict(data_dict, flags)
                              ELSE data_dict
    /\ UNCHANGED <<data_rawdata, parsed, exportVars, bytesVars, typesVars, cacheVars,
                 packVars>>

-----------------------------------------------------------------------------
(* The Serializer and the XML encoder. *)

\* The text of a value: a string is itself, a number its decimal text.
Stringified(x) == IF x.t \in {"str", "unicode"} THEN x ELSE Unicode(str(x).v)

\* Serializer(forceStr, includeKey).serialize(): toDict under the encoder's
\* options; with forceStr every value of the structure is text.
Serialize(tree, forceStr, includeKey) ==
    LET r == toDict(tree, [strKeys |-> FALSE, forceUnicode |-> forceStr,
                           includeKey |-> includeKey])
    IN  IF r.exc # "none" \/ ~forceStr THEN r
        ELSE [exc |-> "none",
              value |-> [i \in 1..Len(r.value) |->
                  <<r.value[i][1],
                    [j \in 1..Len(r.value[i][2]) |->
                        <<r.value[i][2][j][1],
                          [k \in 1..Len(r.value[i][2][j][2]) |->
                              <<r.value[i][2][j][2][k][1],
                                Stringified(r.value[i][2][j][2][k][2])>>]>>]>>]]

\* Lines 111-113: a 'field' element named by the column, its text the value.
FieldElement(column_name, column_value) ==
    [tag |-> "field", name |-> column_name, text |-> column_value]

\* Lines 108-113: a 'row' element with one field per item of row_data.
RowElement(row_data) ==
    [tag |-> "row",
     children |-> [k \in 1..Len(row_data) |-> FieldElement(row_data[k][1], row_data[k][2])]]

\* TableNodes appending the table element alone.
TableNodesNoComment(table_name, rows) ==
    <<[tag |-> "table", name |-> table_name,
       children |-> [j \in 1..Len(rows) |-> RowElement(rows[j][2])]]>>

\* Lines 105-109: what one table appends to the root: a comment, then a
\* 'table' element with one row per value of the table's mapping.
TableNodes(table_name, rows) ==
    <<[tag |-> "#comment", text |-> table_name],
      [tag |-> "table", name |-> table_name,
       children |-> [j \in 1..Len(rows) |-> RowElement(rows[j][2])]]>>

RECURSIVE DatabaseChildren(_, _)
\* Lines 104-113: the loop over data.items().
DatabaseChildren(data, i) ==
    IF i > Len(data) THEN <<>>
    ELSE TableNodes(data[i][1], data[i][2]) \o DatabaseChildren(data, i + 1)

\* lxml accepts only text as an element's text.
AllText(data) ==
    \A i \in 1..Len(data) : \A j \in 1..Len(data[i][2]) :
        \A k \in 1..Len(data[i][2][j][2]) :
            data[i][2][j][2][k][2].t \in {"str", "unicode"}

\* XmlEncoder.encode (lines 101-120): the document built from the serialized
\* data, or the exception that ends the call.
XmlEncode(tree) ==
    LET data == Serialize(tree, TRUE, TRUE)
    IN  IF data.exc # "none" THEN data
        ELSE IF ~AllText(data.value) THEN [exc |-> "TypeError", value |-> None]
        ELSE [exc |-> "none",
              value |-> [tag |-> "database", children |-> DatabaseChildren(data.value, 1)]]

\* A call of XmlEncoder.encode.
XmlEncodeCall ==
    /\ LET r == XmlEncode(data_dict)
       IN  ret' = [op |-> "encode", exc |-> r.exc, value |-> r.value]
    /\ UNCHANGED <<data_dict, data_rawdata, parsed, exportVars, bytesVars, typesVars,
                 cacheVars, packVars>>

Next == Load \/ Parse \/ ToDictCall \/ XmlEncodeCall

Spec == Init /\ [][Next]_vars

-----------------------------------------------------------------------------
(* TerritorialBase.export.  The exporters of the registry are not part of  *)
(* the modelled sources: the registry holds the formats the specification  *)
(* names, and what an exporter produces (its data, or a failure) is an     *)
(* input of the call.                                                       *)

\* Calls of export in a run.
MaxExports == 2

\* exporters.FORMATS: the registered format names.
FORMATS == {"xml", "tsv", "msgpack"}

\* The extension of a format (XmlFormat.extension, TsvFormat.extension).
extension(format) ==
    CASE format = "xml" -> ".xml"
      [] format = "tsv" -> ".tsv"
      [] format = "msgpack" -> ".msgpack"

\* Whether a format is binary (exporter.binary_format).
binary_format(format) == format = "msgpack"

\* The format names a caller may pass.
FormatArgs == FORMATS \cup {"fictional-format"}

\* The filename argument: not given (None), or a name.
NoFilename == [given |-> FALSE, name |-> ""]
Filename(name) == [given |-> TRUE, name |-> name]
FilenameArgs == {NoFilename, Filename(""), Filename("auto"), Filename("out.dat")}

\* Python truth of the filename argument: None and '' are false.
Truthy(filename) == filename.given /\ filename.name # ""

\* What an exporter's data property yields: text, utf-8 bytes, bytes that
\* are not utf-8, or a failure of the exporter.
ExporterRaises == [exc |-> "ExportError", value |-> None]
ExporterOutcomes ==
    {[exc |-> "none", value |-> Unicode(<<227>>)],
     [exc |-> "none", value |-> Str(<<195, 163>>)],
     [exc |-> "none", value |-> Str(<<255>>)],
     ExporterRaises}

RECURSIVE Utf8Decode(_)
\* bytes.decode('utf-8') for sequences of one and two bytes: the code points,
\* or <<-1>> where the bytes are not utf-8.
Utf8Decode(b) ==
    IF b = <<>> THEN <<>>
    ELSE IF b[1] < 128
         THEN LET rest == Utf8Decode(Tail(b))
              IN  IF rest = <<-1>> THEN rest ELSE <<b[1]>> \o rest
    ELSE IF b[1] >= 194 /\ b[1] <= 223 /\ Len(b) >= 2 /\ b[2] >= 128 /\ b[2] <= 191
         THEN LET rest == Utf8Decode(Tail(Tail(b)))
              IN  IF rest = <<-1>> THEN rest
                  ELSE <<(b[1] - 192) * 64 + (b[2] - 128)>> \o rest
    ELSE <<-1>>

\* IsSupported accepting every name.
IsSupportedAlways(format) == TRUE

\* Line 364: the registry test.
IsSupported(format) == format \in FORMATS

\* Lines 379-380: the data of a text format is decoded unless it is text.
TextData(format, data) ==
    IF ~binary_format(format) /\ data.t # "unicode"
    THEN IF Utf8Decode(data.v) = <<-1>>
         THEN [exc |-> "UnicodeDecodeError", value |-> None]
         ELSE [exc |-> "none", value |-> Unicode(Utf8Decode(data.v))]
    ELSE [exc |-> "none", value |-> data]

\* TargetName taking the filename as it is.
TargetNameAsGiven(filename, format) == filename.name

\* Lines 385-386: the name of the output file.
TargetName(filename, format) ==
    IF filename.name = "auto" THEN "dtb" \o extension(format) ELSE filename.name

\* The files with one more, or one replaced.
WithFile(fs, name, content) ==
    [n \in DOMAIN fs \cup {name} |-> IF n = name THEN content ELSE fs[n]]

\* Lines 384-391: the write.  open() creates or truncates the file, or fails
\* and leaves the files alone; a binary file takes bytes only.
WriteOut(format, filename, data, openOk, fs, out) ==
    IF Truthy(filename)
    THEN LET name == TargetName(filename, format)
             mode == IF binary_format(format) THEN "wb" ELSE "w"
         IN  IF ~openOk THEN [exc |-> "IOError", files |-> fs, stdout |-> out]
             ELSE IF mode = "wb" /\ data.t = "unicode"
                  THEN [exc |-> "TypeError",
                        files |-> WithFile(fs, name, [mode |-> mode, data |-> Str(<<>>)]),
                        stdout |-> out]
             ELSE [exc |-> "none",
                   files |-> WithFile(fs, name, [mode |-> mode, data |-> data]),
                   stdout |-> out]
    ELSE [exc |-> "none", files |-> fs, stdout |-> Append(out, data)]

\* Instantiated calling the exporter again after the first call.
InstantiatedTwice(calls) == calls + 2

\* Line 376: exporter(self._data, minified) is evaluated once in a call.
Instantiated(calls) == calls + 1

\* TerritorialBase.export (lines 357-391): the outcome of a call and what it
\* leaves behind.  produced is what the exporter's data property yields,
\* openOk whether open() succeeds.
export(format, minified, filename, produced, openOk, fs, out, calls) ==
    IF ~IsSupported(format)
    THEN [exc |-> "Exception", message |-> "Unsupported output format.",
          files |-> fs, stdout |-> out, exporterCalls |-> calls]
    ELSE IF format \notin FORMATS
    THEN \* FORMATS.get(format) is None: exporter.format fails
         [exc |-> "AttributeError", message |-> "",
          files |-> fs, stdout |-> out, exporterCalls |-> calls]
    ELSE IF produced.exc # "none"
    THEN [exc |-> produced.exc, message |-> "",
          files |-> fs, stdout |-> out, exporterCalls |-> Instantiated(calls)]
    ELSE LET data == TextData(format, produced.value)
         IN  IF data.exc # "none"
             THEN [exc |-> data.exc, message |-> "",
                   files |-> fs, stdout |-> out, exporterCalls |-> Instantiated(calls)]
             ELSE LET w == WriteOut(format, filename, data.value, openOk, fs, out)
                  IN  [exc |-> w.exc, message |-> "",
                       files |-> w.files, stdout |-> w.stdout,
                       exporterCalls |-> Instantiated(calls)]

\* A call of TerritorialBase.export.
Export ==
    /\ nexports < MaxExports
    /\ \E format \in FormatArgs, minified \in BOOLEAN, filename \in FilenameArgs,
          produced \in ExporterOutcomes, openOk \in BOOLEAN :
          LET r == export(format, minified, filename, produced, openOk,
                          files, stdout, exporterCalls)
          IN  /\ files' = r.files
              /\ stdout' = r.stdout
              /\ exporterCalls' = r.exporterCalls
              /\ exportRet' = [op |-> "export", format |-> format, minified |-> minified,
                               filename |-> filename, produced |-> produced,
                               exc |-> r.exc, message |-> r.message]
    /\ nexports' = nexports + 1
    /\ UNCHANGED <<treeVars, bytesVars, typesVars, cacheVars, packVars>>

NextExport == Export

SpecExport == Init /\ [][NextExport]_vars


-----------------------------------------------------------------------------
(* Bytes (types.py, Python 3): an io.BytesIO with struct packing.  The     *)
(* stream has one position, shared by reads and writes.                    *)

\* Write calls on one buffer.
MaxWrites == 4
\* Seek calls on one buffer.
MaxSeeks == 1

PyBool(b) == [t |-> "bool", v |-> b]
PyBytes(s) == [t |-> "bytes", v |-> s]
\* A float: m * 2^e, m odd or zero.
PyFloat(m, e) == [t |-> "float", m |-> m, e |-> e]

RECURSIVE Pow2(_)
Pow2(k) == IF k = 0 THEN 1 ELSE 2 * Pow2(k - 1)

RECURSIVE Log2(_)
\* The position of the highest set bit of a positive integer.
Log2(n) == IF n < 2 THEN 0 ELSE 1 + Log2(n \div 2)

RECURSIVE Normalized(_, _)
\* m * 2^e with m odd, or zero.
Normalized(m, e) ==
    IF m = 0 THEN PyFloat(0, 0)
    ELSE IF m % 2 = 0 THEN Normalized(m \div 2, e + 1)
    ELSE PyFloat(m, e)

Reversed(s) == [i \in 1..Len(s) |-> s[Len(s) + 1 - i]]

StructError == [exc |-> "struct.error", value |-> None]
Packed(b) == [exc |-> "none", value |-> b]

\* struct.pack('!i', value): four bytes, big-endian, two's complement.
PackInt(value) ==
    IF value.t \notin {"int", "bool"} THEN StructError
    ELSE LET n == IF value.t = "bool" THEN (IF value.v THEN 1 ELSE 0) ELSE value.v
         IN  Packed(<<(n \div 16777216) % 256, (n \div 65536) % 256,
                      (n \div 256) % 256, n % 256>>)

\* struct.pack('i', value): four bytes in the native order.
PackNativeInt(value, order) ==
    LET p == PackInt(value)
    IN  IF p.exc # "none" \/ order = "big" THEN p ELSE Packed(Reversed(p.value))

\* struct.pack('!f', value) of a float in the normal range, or of zero:
\* sign, biased exponent and 23 bits of fraction, big-endian.
PackFloat(value) ==
    IF value.t # "float" THEN StructError
    ELSE IF value.m = 0 THEN Packed(<<0, 0, 0, 0>>)
    ELSE LET sign == IF value.m < 0 THEN 1 ELSE 0
             mag == IF value.m < 0 THEN -value.m ELSE value.m
             p == Log2(mag)
             biased == p + value.e + 127
             fraction == (mag - Pow2(p)) * Pow2(23 - p)
         IN  Packed(<<(sign * 128) + (biased \div 2),
                      ((biased % 2) * 128) + (fraction \div 65536),
                      (fraction \div 256) % 256,
                      fraction % 256>>)

\* struct.pack('c', value): a bytes object of length 1.
PackChar(value) ==
    IF value.t = "bytes" /\ Len(value.v) = 1 THEN Packed(value.v) ELSE StructError

\* struct.pack('<n>s', value): a bytes object, cut or zero-padded to n bytes.
PackString(n, value) ==
    IF value.t # "bytes" THEN StructError
    ELSE Packed([i \in 1..n |-> IF i <= Len(value.v) THEN value.v[i] ELSE 0])

\* struct.unpack('!i', b)[0]
UnpackInt(b) ==
    IF Len(b) # 4 THEN StructError
    ELSE [exc |-> "none",
          value |-> PyInt((IF b[1] >= 128 THEN b[1] - 256 ELSE b[1]) * 16777216
                          + b[2] * 65536 + b[3] * 256 + b[4])]

\* struct.unpack('i', b)[0]
UnpackNativeInt(b, order) ==
    IF Len(b) # 4 THEN StructError
    ELSE UnpackInt(IF order = "big" THEN b ELSE Reversed(b))

\* struct.unpack('!f', b)[0]
UnpackFloat(b) ==
    IF Len(b) # 4 THEN StructError
    ELSE LET sign == b[1] \div 128
             biased == ((b[1] % 128) * 2) + (b[2] \div 128)
             fraction == ((b[2] % 128) * 65536) + (b[3] * 256) + b[4]
             mag == IF biased = 0 THEN fraction ELSE 8388608 + fraction
             exp == IF biased = 0 THEN -149 ELSE biased - 150
         IN  IF biased = 255
             THEN [exc |-> "none",
                   value |-> [t |-> "float", m |-> IF sign = 1 THEN -1 ELSE 1,
                              e |-> IF fraction = 0 THEN "inf" ELSE "nan"]]
             ELSE [exc |-> "none",
                   value |-> Normalized(IF sign = 1 THEN -mag ELSE mag, exp)]

\* struct.unpack('c', b)[0]
UnpackChar(b) ==
    IF Len(b) # 1 THEN StructError ELSE [exc |-> "none", value |-> PyBytes(b)]

\* struct.unpack('<n>s', b)[0]; a negative count is a bad format.
UnpackString(n, b) ==
    IF n < 0 \/ Len(b) # n THEN StructError ELSE [exc |-> "none", value |-> PyBytes(b)]

\* chr(value).encode('utf-8') for a code point below 2048.
ChrEncoded(value) ==
    IF value < 128 THEN PyBytes(<<value>>)
    ELSE PyBytes(<<192 + (value \div 64), 128 + (value % 64)>>)

\* io.BytesIO.write at position p: the bytes replace what is there and extend
\* the buffer.
WriteAt(b, p, data) ==
    [i \in 1..(IF p + Len(data) > Len(b) THEN p + Len(data) ELSE Len(b)) |->
        IF i > p /\ i <= p + Len(data) THEN data[i - p]
        ELSE IF i <= Len(b) THEN b[i] ELSE 0]

\* io.BytesIO.read(size) at position p: at most size bytes, fewer at the end.
ReadAt(b, p, size) ==
    SubSeq(b, p + 1, IF size > Len(b) - p THEN Len(b) ELSE p + size)

\* The state of the stream: its bytes and its position.
Stream(b, p) == [buf |-> b, pos |-> p]

\* Bytes._pack (lines 74-82): a packing failure leaves the stream alone.
Pack(packed, st) ==
    IF packed.exc # "none" THEN [exc |-> packed.exc, value |-> None, st |-> st]
    ELSE [exc |-> "none", value |-> None,
          st |-> Stream(WriteAt(st.buf, st.pos, packed.value),
                        st.pos + Len(packed.value))]

\* The bytes Bytes._unpack (lines 84-95) reads, and the stream after the read.
Taken(st, size) == ReadAt(st.buf, st.pos, size)
AfterRead(st, size) == Stream(st.buf, st.pos + Len(Taken(st, size)))

\* Bytes.readByte (lines 97-104)
readByte(st) ==
    LET u == UnpackChar(Taken(st, 1))
    IN  [exc |-> u.exc,
         value |-> IF u.exc = "none" THEN PyInt(u.value.v[1]) ELSE None,
         st |-> AfterRead(st, 1)]

\* Bytes.readBoolean (lines 106-113)
readBoolean(st) ==
    LET r == readByte(st)
    IN  [r EXCEPT !.value = IF r.exc = "none" THEN PyBool(r.value.v = 1) ELSE None]

\* Bytes.readInt (lines 115-122)
readInt(st) ==
    LET u == UnpackInt(Taken(st, 4))
    IN  [exc |-> u.exc, value |-> u.value, st |-> AfterRead(st, 4)]

\* Bytes.readFloat (lines 124-131)
readFloat(st) ==
    LET u == UnpackFloat(Taken(st, 4))
    IN  [exc |-> u.exc, value |-> u.value, st |-> AfterRead(st, 4)]

\* Bytes.readString (lines 133-142): a native int, then that many bytes.
readString(st, order) ==
    LET length == UnpackNativeInt(Taken(st, 4), order)
        st1 == AfterRead(st, 4)
    IN  IF length.exc # "none" THEN [exc |-> length.exc, value |-> None, st |-> st1]
        ELSE IF length.value.v < 0 THEN [exc |-> "struct.error", value |-> None, st |-> st1]
        ELSE LET u == UnpackString(length.value.v, Taken(st1, length.value.v))
             IN  [exc |-> u.exc, value |-> u.value,
                  st |-> AfterRead(st1, length.value.v)]

\* Bytes.writeByte (lines 144-151)
writeByte(st, value) == Pack(PackChar(ChrEncoded(value)), st)

\* Bytes.writeBoolean (lines 153-160)
writeBoolean(st, value) == writeByte(st, IF value THEN 1 ELSE 0)

\* Bytes.writeInt (lines 162-169)
writeInt(st, value) == Pack(PackInt(PyInt(value)), st)

\* Bytes.writeFloat (lines 171-178)
writeFloat(st, value) == Pack(PackFloat(value), st)

\* Bytes.writeString (lines 180-190): the length as a native int, then the
\* value; the length stays written when the value cannot be packed.
writeString(st, value, order) ==
    LET length == Len(value.v)
        header == Pack(PackNativeInt(PyInt(length), order), st)
    IN  IF header.exc # "none" THEN header
        ELSE Pack(PackString(length, value), header.st)

\* The arguments of the write calls.
ByteArgs == {127, 128}
IntArgs == {-42}
FloatArgs == {PyFloat(7, -1)}                         \* 3.5
StringArgs == {Str(<<115, 112>>), PyBytes(<<115, 112>>)}   \* "sp", b"sp"

\* The calls of the round trip: write true, -42, 3.5 and "sp" (given as text or
\* as bytes), then read a boolean, an integer, a float and a string.
Script ==
    <<[op |-> "writeBoolean", args |-> {PyBool(TRUE)}],
      [op |-> "writeInt", args |-> {PyInt(-42)}],
      [op |-> "writeFloat", args |-> {PyFloat(7, -1)}],
      [op |-> "writeString", args |-> {Str(<<115, 112>>), PyBytes(<<115, 112>>)}],
      [op |-> "readBoolean", args |-> {None}],
      [op |-> "readInt", args |-> {None}],
      [op |-> "readFloat", args |-> {None}],
      [op |-> "readString", args |-> {None}]>>

\* A call on the buffer: the stream takes the call's effect and the call is
\* matched against the script.
Called(op, arg, r, isWrite, isSeek) ==
    /\ buf' = r.st.buf
    /\ pos' = r.st.pos
    /\ bytesRet' = [op |-> op, arg |-> arg, exc |-> r.exc, value |-> r.value]
    /\ nwrites' = IF isWrite THEN nwrites + 1 ELSE nwrites
    /\ nseeks' = IF isSeek THEN nseeks + 1 ELSE nseeks
    /\ script' = IF script >= 0 /\ script < Len(Script)
                    /\ Script[script + 1].op = op
                    /\ arg \in Script[script + 1].args
                 THEN script + 1 ELSE -1
    /\ UNCHANGED <<byteorder, treeVars, exportVars, typesVars, cacheVars, packVars>>

WriteByte ==
    /\ nwrites < MaxWrites
    /\ \E v \in ByteArgs : Called("writeByte", PyInt(v), writeByte(Stream(buf, pos), v), TRUE, FALSE)

WriteBoolean ==
    /\ nwrites < MaxWrites
    /\ \E v \in BOOLEAN :
          Called("writeBoolean", PyBool(v), writeBoolean(Stream(buf, pos), v), TRUE, FALSE)

WriteInt ==
    /\ nwrites < MaxWrites
    /\ \E v \in IntArgs : Called("writeInt", PyInt(v), writeInt(Stream(buf, pos), v), TRUE, FALSE)

WriteFloat ==
    /\ nwrites < MaxWrites
    /\ \E v \in FloatArgs : Called("writeFloat", v, writeFloat(Stream(buf, pos), v), TRUE, FALSE)

WriteString ==
    /\ nwrites < MaxWrites
    /\ \E v \in StringArgs :
          Called("writeString", v, writeString(Stream(buf, pos), v, byteorder), TRUE, FALSE)

ReadByte ==
    LET r == readByte(Stream(buf, pos))
    IN  Called("readByte", None, r, FALSE, FALSE)
ReadBoolean ==
    LET r == readBoolean(Stream(buf, pos))
    IN  Called("readBoolean", None, r, FALSE, FALSE)
ReadInt ==
    LET r == readInt(Stream(buf, pos))
    IN  Called("readInt", None, r, FALSE, FALSE)
ReadFloat ==
    LET r == readFloat(Stream(buf, pos))
    IN  Called("readFloat", None, r, FALSE, FALSE)
ReadString ==
    LET r == readString(Stream(buf, pos), byteorder)
    IN  Called("readString", None, r, FALSE, FALSE)

\* io.BytesIO.seek(0), inherited: back to the first byte.
Rewind ==
    /\ nseeks < MaxSeeks
    /\ Called("seek", PyInt(0),
              [exc |-> "none", value |-> PyInt(0), st |-> Stream(buf, 0)], FALSE, TRUE)

NextBytes ==
    \/ WriteByte \/ WriteBoolean \/ WriteInt \/ WriteFloat \/ WriteString
    \/ ReadByte \/ ReadBoolean \/ ReadInt \/ ReadFloat \/ ReadString
    \/ Rewind

\* The buffer is new; the platform's byte order is either one.
InitAnyOrder == InitRest /\ items = <<>> /\ byteorder \in {"little", "big"}

SpecBytes == InitAnyOrder /\ [][NextBytes]_vars

-----------------------------------------------------------------------------
(* List (types.py, Python 3): a list with chunk and splice. *)

\* The longest list and the calls made on one list.
MaxLen == 3
MaxListOps == 2

\* The lists the calls start from.
Lists == UNION {[1..n -> {"a", "b", "c"}] : n \in 0..MaxLen}

\* A bound of a Python slice on a list of n items: a negative bound counts
\* from the end, and every bound is cut to 0..n.
SliceBound(i, n) ==
    IF i < 0 THEN (IF i + n < 0 THEN 0 ELSE i + n)
    ELSE IF i > n THEN n ELSE i

\* l[i:j]
Slice(l, i, j) == SubSeq(l, SliceBound(i, Len(l)) + 1, SliceBound(j, Len(l)))

\* l after del l[i:j]
DelSlice(l, i, j) ==
    LET a == SliceBound(i, Len(l))
        b == SliceBound(j, Len(l))
    IN  IF b <= a THEN l ELSE SubSeq(l, 1, a) \o SubSeq(l, b + 1, Len(l))

\* ChunkStarts stopping one item early: range(0, len(self) - 1, size).
ChunkStartsShort(n, size) ==
    [k \in 1..((n - 1 + size - 1) \div size) |-> (k - 1) * size]

\* range(0, len(self), size) for size > 0
ChunkStarts(n, size) == [k \in 1..((n + size - 1) \div size) |-> (k - 1) * size]

\* List.chunk (lines 223-241)
chunk(self, size) ==
    IF size <= 0 THEN [exc |-> "ValueError", value |-> None, self |-> self]
    ELSE LET starts == ChunkStarts(Len(self), size)
         IN  [exc |-> "none",
              value |-> [k \in 1..Len(starts) |-> Slice(self, starts[k], starts[k] + size)],
              self |-> self]

\* Python truth of the size argument: None and 0 are false.
SizeGiven(size) == size # None /\ size.v # 0

\* List.splice (lines 501-521)
splice(self, index, size) ==
    IF SizeGiven(size)
    THEN [exc |-> "none",
          value |-> Slice(self, index, index + size.v),
          self |-> DelSlice(self, index, index + size.v)]
    ELSE [exc |-> "none",
          value |-> Slice(self, index, Len(self)),
          self |-> DelSlice(self, index, Len(self))]

\* The arguments of the calls.
ChunkSizes == -1..(MaxLen + 1)
SpliceIndexes == (0 - MaxLen - 1)..(MaxLen + 1)
SpliceSizes == {None} \cup {PyInt(n) : n \in -1..(MaxLen + 1)}

\* A call of List.chunk.
Chunk ==
    /\ nlistops < MaxListOps
    /\ \E size \in ChunkSizes :
          LET r == chunk(items, size)
          IN  /\ items' = r.self
              /\ listRet' = [op |-> "chunk", size |-> PyInt(size), before |-> items,
                             exc |-> r.exc, value |-> r.value]
    /\ nlistops' = nlistops + 1
    /\ UNCHANGED <<treeVars, exportVars, bytesVars, singletonVars, cacheVars, packVars>>

\* A call of List.splice.
Splice ==
    /\ nlistops < MaxListOps
    /\ \E index \in SpliceIndexes, size \in SpliceSizes :
          LET r == splice(items, index, size)
          IN  /\ items' = r.self
              /\ listRet' = [op |-> "splice", index |-> index, size |-> size,
                             before |-> items, exc |-> r.exc, value |-> r.value]
    /\ nlistops' = nlistops + 1
    /\ UNCHANGED <<treeVars, exportVars, bytesVars, singletonVars, cacheVars, packVars>>

NextList == Chunk \/ Splice

\* The list holds any items before the first call.
InitAnyList == InitRest /\ items \in Lists /\ byteorder = "little"

SpecList == InitAnyList /\ [][NextList]_vars

-----------------------------------------------------------------------------
(* Singleton (types.py, Python 3): a metaclass caching one instance in the *)
(* class attribute _instance.  Objects are numbered from 1 in the order of *)
(* their construction; 0 stands for no object.                             *)

\* Constructor calls on the classes.
MaxCalls == 4

\* Three classes with the metaclass: Derived is a subclass of Base.
Classes == {"Base", "Derived", "Other"}
Bases(cls) == IF cls = "Derived" THEN {"Derived", "Base"} ELSE {cls}

\* getattr(cls, '_instance'): the attribute of the class itself, or else the
\* one inherited from its base; 0 when hasattr is false.
Lookup(attrs, cls) ==
    IF attrs[cls] # 0 THEN attrs[cls]
    ELSE IF cls = "Derived" THEN attrs["Base"] ELSE 0

\* IsInstance taking every object for an instance.
IsInstanceAlways(objs, obj, cls) == TRUE

\* isinstance(obj, cls)
IsInstance(objs, obj, cls) == cls \in Bases(objs[obj].cls)

\* Singleton.__call__ (lines 53-68).  constructs tells whether the class's
\* constructor returns or raises.
SingletonCall(attrs, objs, cls, args, constructs) ==
    LET cached == Lookup(attrs, cls)
    IN  IF cached = 0 \/ ~IsInstance(objs, cached, cls)
        THEN IF constructs
             THEN [exc |-> "none", value |-> Len(objs) + 1, ran |-> TRUE,
                   own |-> [attrs EXCEPT ![cls] = Len(objs) + 1],
                   objects |-> Append(objs, [cls |-> cls, args |-> args])]
             ELSE [exc |-> "ConstructorError", value |-> 0, ran |-> TRUE,
                   own |-> attrs, objects |-> objs]
        ELSE [exc |-> "none", value |-> Lookup(attrs, cls), ran |-> FALSE,
              own |-> attrs, objects |-> objs]

\* A call cls(args) of a class with the metaclass.
Construct ==
    /\ ncalls < MaxCalls
    /\ \E cls \in Classes, args \in {1, 2}, constructs \in BOOLEAN :
          LET r == SingletonCall(own, objects, cls, args, constructs)
          IN  /\ own' = r.own
              /\ objects' = r.objects
              /\ runs' = [runs EXCEPT ![cls] = IF r.ran THEN @ + 1 ELSE @]
              /\ singletonRet' = [op |-> "call", cls |-> cls, args |-> args,
                                  exc |-> r.exc, value |-> r.value]
    /\ ncalls' = ncalls + 1
    /\ UNCHANGED <<treeVars, exportVars, bytesVars, listVars, cacheVars, packVars>>

NextSingleton == Construct

SpecSingleton == Init /\ [][NextSingleton]_vars

-----------------------------------------------------------------------------
(* TerritorialBase.retrieve and download (entities.py): the cache file. *)

\* Calls of retrieve.
MaxRetrieves == 4

\* What the server's archive may hold when it is downloaded.
RemoteData == {<<80, 75>>, <<80, 75, 3>>, <<208, 207>>}

\* How a download may end: the sheet is written to the cache file; the
\* transfer or the archive fails before the file is opened; or the file is
\* created and the write fails.
DownloadOutcomes ==
    {[exc |-> "none", data |-> d] : d \in RemoteData}
    \cup {[exc |-> "ftplib.Error", data |-> <<>>], [exc |-> "IOError", data |-> <<>>]}

\* TerritorialBase.download (lines 299-330): the cache file after the call.
download(file, outcome) ==
    CASE outcome.exc = "none" -> [exc |-> "none", cache |-> Str(outcome.data)]
      [] outcome.exc = "IOError" -> [exc |-> "IOError", cache |-> Str(<<>>)]
      [] OTHER -> [exc |-> outcome.exc, cache |-> file]

\* NeedsDownload whatever the cache holds.
NeedsDownloadAlways(file) == TRUE

\* Line 334: if not exists(self.cache_file)
NeedsDownload(file) == file = None

\* TerritorialBase.retrieve (lines 332-344): the cache file and the raw data
\* of the tree after the call.
retrieve(file, rawdata, outcome) ==
    LET d == IF NeedsDownload(file) THEN download(file, outcome)
             ELSE [exc |-> "none", cache |-> file]
    IN  IF d.exc # "none"
        THEN [exc |-> d.exc, downloaded |-> NeedsDownload(file), cache |-> d.cache,
              rawdata |-> rawdata]
        ELSE [exc |-> "none", downloaded |-> NeedsDownload(file), cache |-> d.cache,
              rawdata |-> d.cache]

\* A call of TerritorialBase.retrieve.
Retrieve ==
    /\ nretrieves < MaxRetrieves
    /\ \E outcome \in DownloadOutcomes :
          LET r == retrieve(cache, data_rawdata, outcome)
          IN  /\ cache' = r.cache
              /\ data_rawdata' = r.rawdata
              /\ ndownloads' = IF r.downloaded THEN ndownloads + 1 ELSE ndownloads
              /\ retrieveRet' = [op |-> "retrieve", exc |-> r.exc,
                                 downloaded |-> r.downloaded]
    /\ nretrieves' = nretrieves + 1
    /\ UNCHANGED <<data_dict, parsed, ret, exportVars, bytesVars, typesVars, packVars>>

\* The cache file is deleted from outside the program.
DeleteCache ==
    /\ cache # None
    /\ cache' = None
    /\ ndownloads' = 0
    /\ UNCHANGED <<nretrieves, retrieveRet, treeVars, exportVars, bytesVars, typesVars,
                   packVars>>

NextRetrieve == Retrieve \/ DeleteCache

SpecRetrieve == Init /\ [][NextRetrieve]_vars

-----------------------------------------------------------------------------
(* MessagePackExporter.export (msgpack.py): the normalized structure packed *)
(* by msgpack.packb(unpacked, use_bin_type=False).  A mapping is a sequence *)
(* of <<key, value>> pairs in its order, tagged as a dict.                  *)

\* Calls of the exporter.
MaxPacks == 2

Dict(pairs) == [t |-> "dict", v |-> pairs]

RECURSIVE Utf8Encode(_)
\* str.encode('utf-8') for code points below 2048.
Utf8Encode(points) ==
    IF points = <<>> THEN <<>>
    ELSE (IF points[1] < 128 THEN <<points[1]>>
          ELSE <<192 + (points[1] \div 64), 128 + (points[1] % 64)>>)
         \o Utf8Encode(Tail(points))

\* The big-endian bytes of a number below 2^(8 * width).
BigEndian(n, width) == [i \in 1..width |-> (n \div Pow2(8 * (width - i))) % 256]

\* The number a big-endian byte sequence of up to three bytes stands for.
FromBigEndian(b) ==
    IF Len(b) = 1 THEN b[1]
    ELSE IF Len(b) = 2 THEN (b[1] * 256) + b[2]
    ELSE (b[1] * 65536) + (b[2] * 256) + b[3]

\* PackedInt keeping the lowest byte of the integer only.
PackedIntOneByte(n) == <<204, n % 256>>

\* An integer in the shortest MessagePack form that holds it (24 bits here).
PackedInt(n) ==
    IF n >= 0
    THEN IF n < 128 THEN <<n>>
         ELSE IF n < 256 THEN <<204, n>>
         ELSE IF n < 65536 THEN <<205>> \o BigEndian(n, 2)
         ELSE <<206, 0>> \o BigEndian(n, 3)
    ELSE IF n >= -32 THEN <<256 + n>>
         ELSE IF n >= -128 THEN <<208, 256 + n>>
         ELSE <<209>> \o BigEndian(65536 + n, 2)

\* A string in the raw family: without use_bin_type text and bytes are packed
\* alike, as fixstr up to 31 bytes and str16 above (there is no str8).
PackedRaw(b) ==
    IF Len(b) < 32 THEN <<160 + Len(b)>> \o b
    ELSE <<218>> \o BigEndian(Len(b), 2) \o b

\* The header of a map of n pairs.
PackedMapHeader(n) == IF n < 16 THEN <<128 + n>> ELSE <<222>> \o BigEndian(n, 2)

RECURSIVE packb(_)
RECURSIVE PackedPairs(_)
\* msgpack.packb(o, use_bin_type=False)
packb(o) ==
    CASE o.t = "int" -> PackedInt(o.v)
      [] o.t = "unicode" -> PackedRaw(Utf8Encode(o.v))
      [] o.t = "bytes" -> PackedRaw(o.v)
      [] o.t = "dict" -> PackedMapHeader(Len(o.v)) \o PackedPairs(o.v)

PackedPairs(pairs) ==
    IF pairs = <<>> THEN <<>>
    ELSE packb(pairs[1][1]) \o packb(pairs[1][2]) \o PackedPairs(Tail(pairs))

\* The value read by a MessagePack decoder that gives text for the raw
\* family: DecodedAt(b, i) is the value starting at byte i and the place of
\* the byte after it.
RECURSIVE DecodedAt(_, _)
RECURSIVE DecodedPairs(_, _, _)
DecodedAt(b, i) ==
    LET h == b[i]
        Text(from, len) ==
            [value |-> Unicode(Utf8Decode(SubSeq(b, from, from + len - 1))),
             next |-> from + len]
        Map(from, n) ==
            LET r == DecodedPairs(b, from, n)
            IN  [value |-> Dict(r.pairs), next |-> r.next]
    IN  CASE h < 128 -> [value |-> PyInt(h), next |-> i + 1]
          [] h >= 128 /\ h < 144 -> Map(i + 1, h - 128)
          [] h >= 160 /\ h < 192 -> Text(i + 1, h - 160)
          [] h = 204 -> [value |-> PyInt(b[i + 1]), next |-> i + 2]
          [] h = 205 -> [value |-> PyInt(FromBigEndian(SubSeq(b, i + 1, i + 2))),
                         next |-> i + 3]
          [] h = 206 -> [value |-> PyInt(FromBigEndian(SubSeq(b, i + 2, i + 4))),
                         next |-> i + 5]
          [] h = 208 -> [value |-> PyInt(b[i + 1] - 256), next |-> i + 2]
          [] h = 209 -> [value |-> PyInt(FromBigEndian(SubSeq(b, i + 1, i + 2)) - 65536),
                         next |-> i + 3]
          [] h = 218 -> Text(i + 3, FromBigEndian(SubSeq(b, i + 1, i + 2)))
          [] h = 222 -> Map(i + 3, FromBigEndian(SubSeq(b, i + 1, i + 2)))
          [] h >= 224 -> [value |-> PyInt(h - 256), next |-> i + 1]

DecodedPairs(b, i, n) ==
    IF n = 0 THEN [pairs |-> <<>>, next |-> i]
    ELSE LET k == DecodedAt(b, i)
             v == DecodedAt(b, k.next)
             rest == DecodedPairs(b, v.next, n - 1)
         IN  [pairs |-> <<<<k.value, v.value>>>> \o rest.pairs, next |-> rest.next]

\* msgpack.unpackb(b, raw=False)
unpackb(b) == DecodedAt(b, 1).value

\* The text of an ASCII name.
Name(s) ==
    Unicode(CASE s = "uf" -> <<117, 102>>
              [] s = "mesorregiao" -> <<109, 101, 115, 111, 114, 114, 101, 103, 105, 97, 111>>
              [] s = "id" -> <<105, 100>>
              [] s = "id_uf" -> <<105, 100, 95, 117, 102>>
              [] s = "nome" -> <<110, 111, 109, 101>>)

\* The keys and names of the rows of a normalized structure.
PackIds == {1, 35, 3550308}
PackNames == {Unicode(<<115, 112>>), Unicode(<<83, 227, 111>>)}

\* The key of a row in the structure: the integer, or its digits as text.
PackRowKey(id, strKeys) == IF strKeys THEN Unicode(str(PyInt(id)).v) ELSE PyInt(id)

\* The field map of a row, with or without its 'id'.
PackRow(table, id, nome, includeKey) ==
    Dict((IF includeKey THEN <<<<Name("id"), PyInt(id)>>>> ELSE <<>>)
         \o (IF table = "mesorregiao" THEN <<<<Name("id_uf"), PyInt(35)>>>> ELSE <<>>)
         \o <<<<Name("nome"), nome>>>>)

\* A table of the structure: the rows of the given ids under their keys.
PackTable(table, ids, nomes, strKeys, includeKey) ==
    <<Name(table),
      Dict([i \in 1..Len(ids) |->
              <<PackRowKey(ids[i], strKeys), PackRow(table, ids[i], nomes[i], includeKey)>>])>>

\* The 'uf' tables: up to two rows with different ids.
PackUfRows ==
    {<<ids, nomes>> \in (UNION {[1..n -> PackIds] : n \in 0..2})
                        \X (UNION {[1..n -> PackNames] : n \in 0..2}) :
        /\ Len(ids) = Len(nomes)
        /\ \A i, j \in 1..Len(ids) : i # j => ids[i] # ids[j]}

\* The normalized structures: the 'uf' table when it has rows, then the
\* 'mesorregiao' table with one row or none; integers and text, in plain
\* nested mappings.
NormalizedStructures ==
    {Dict((IF Len(u[1]) > 0
           THEN <<PackTable("uf", u[1], u[2], strKeys, includeKey)>> ELSE <<>>)
          \o (IF m = <<>> THEN <<>>
              ELSE <<PackTable("mesorregiao", <<200>>, m, strKeys, includeKey)>>)) :
        u \in PackUfRows, m \in {<<>>} \cup {<<n>> : n \in PackNames},
        strKeys \in BOOLEAN, includeKey \in BOOLEAN}

\* What self._data.normalize() yields: a structure, or a failure.
NormalizeOutcomes ==
    {[exc |-> "none", value |-> d] : d \in NormalizedStructures}
    \cup {[exc |-> "NormalizeError", value |-> None]}

\* Lines 47-49: the packed bytes, as the content of the returned io.BytesIO.
PackStream(unpacked) == packb(unpacked)

\* MessagePackExporter.export (lines 33-49)
MessagePackExporter_export(normalized) ==
    IF normalized.exc # "none" THEN [exc |-> normalized.exc, value |-> None]
    ELSE [exc |-> "none", value |-> PyBytes(PackStream(normalized.value))]

\* A call of MessagePackExporter.export.
MessagePackExport ==
    /\ npacks < MaxPacks
    /\ \E normalized \in NormalizeOutcomes :
          LET r == MessagePackExporter_export(normalized)
          IN  packRet' = [op |-> "export", normalized |-> normalized,
                          exc |-> r.exc, value |-> r.value]
    /\ npacks' = npacks + 1
    /\ UNCHANGED <<treeVars, exportVars, bytesVars, typesVars, cacheVars>>

NextPack == MessagePackExport

SpecPack == Init /\ [][NextPack]_vars

-----------------------------------------------------------------------------
(* Properties of toDict. *)

\* The last call was a toDict call that returned.
ToDictReturned == ret.op = "toDict" /\ ret.exc = "none"

\* The tables with at least one stored row.
Populated == {t \in DOMAIN data_dict : Len(data_dict[t]) >= 1}

\* C1: includeKey=False yields field maps that lack exactly the primary-key
\* field 'id' and includeKey=True yields field maps that hold it; with the
\* other two flags fixed, the two results have the same tables, the same row
\* keys in the same order, and field maps equal except for the 'id' entry.
IncludeKeyOnlyTogglesId ==
    ToDictReturned =>
        LET without == toDict(data_dict, [ret.flags EXCEPT !.includeKey = FALSE])
            with == toDict(data_dict, [ret.flags EXCEPT !.includeKey = TRUE])
        IN  /\ without.exc = "none" /\ with.exc = "none"
            /\ ret.value = IF ret.flags.includeKey THEN with.value ELSE without.value
            /\ OdKeys(with.value) = OdKeys(without.value)
            /\ \A i \in 1..Len(with.value) :
                  LET tw == with.value[i][2]
                      to == without.value[i][2]
                  IN  /\ OdKeys(tw) = OdKeys(to)
                      /\ \A j \in 1..Len(tw) :
                            /\ OdHas(tw[j][2], "id")
                            /\ ~OdHas(to[j][2], "id")
                            /\ Len(tw[j][2]) = Len(to[j][2]) + 1
                            /\ to[j][2] = SelectSeq(tw[j][2], LAMBDA p : p[1] # "id")

\* C1's case: a call without the key returned a table that holds a row.
IncludeKeyWitness ==
    /\ ToDictReturned
    /\ ~ret.flags.includeKey
    /\ \E i \in 1..Len(ret.value) : Len(ret.value[i][2]) >= 1

\* C2: the tables of the result are exactly the entity kinds that hold at
\* least one row; no table is mapped to an empty mapping.
TablesAreThePopulatedKinds ==
    ToDictReturned =>
        /\ {ret.value[i][1] : i \in 1..Len(ret.value)} = Populated
        /\ \A i \in 1..Len(ret.value) : ret.value[i][2] # <<>>

\* C2's case: the result holds a table and leaves out an empty one.
SomeTableOmittedWitness ==
    /\ ToDictReturned
    /\ Len(ret.value) >= 1
    /\ \E t \in DOMAIN data_dict : data_dict[t] = <<>>

\* C3: every table of the result has one entry per stored row: two rows with
\* the same primary key are never merged into one entry.
OneEntryPerStoredRow ==
    ToDictReturned =>
        \A i \in 1..Len(ret.value) :
            Len(ret.value[i][2]) = Len(data_dict[ret.value[i][1]])

DependencyOrder ==
    <<"uf", "mesorregiao", "microrregiao", "municipio", "distrito", "subdistrito">>

RECURSIVE FirstOccurrences(_)
\* A sequence without the later repeats of its items.
FirstOccurrences(s) ==
    IF s = <<>> THEN <<>>
    ELSE LET init == FirstOccurrences(SubSeq(s, 1, Len(s) - 1))
         IN  IF \E i \in 1..Len(init) : init[i] = s[Len(s)] THEN init
             ELSE Append(init, s[Len(s)])

\* The keys of a table's stored rows, in stored order.
StoredKeys(t, strKeys) ==
    [i \in 1..Len(data_dict[t]) |->
        IF strKeys THEN Str(Digits(data_dict[t][i]["id"].v)) ELSE data_dict[t][i]["id"]]

\* C9: the tables of the result are in dependency order, whatever tables are
\* present, so that a table comes after every table its foreign keys
\* reference; the rows of a table come in the tree's row order (a key's place
\* is that of the first stored row that carries it) and the fields of a row
\* in the entity's column order.
ResultKeepsDeclaredOrder ==
    ToDictReturned =>
        /\ OdKeys(ret.value) = SelectSeq(DependencyOrder, LAMBDA t : t \in Populated)
        /\ \A i \in 1..Len(ret.value) :
              LET t == ret.value[i][1]
              IN  /\ \A c \in DOMAIN foreignKeys(t) :
                        \A j \in 1..Len(ret.value) :
                            ret.value[j][1] = foreignKeys(t)[c] => j < i
                  /\ OdKeys(ret.value[i][2]) =
                        FirstOccurrences(StoredKeys(t, ret.flags.strKeys))
                  /\ \A j \in 1..Len(ret.value[i][2]) :
                        OdKeys(ret.value[i][2][j][2]) =
                            SelectSeq(columns(t),
                                      LAMBDA c : ret.flags.includeKey \/ c # "id")

\* C9's case: the result holds a table and, before it, a table it references.
OrderWitness ==
    /\ ToDictReturned
    /\ \E i, j \in 1..Len(ret.value) :
          /\ j < i
          /\ \E c \in DOMAIN foreignKeys(ret.value[i][1]) :
                foreignKeys(ret.value[i][1])[c] = ret.value[j][1]

-----------------------------------------------------------------------------
(* Properties of the XML encoder. *)

EncodeReturned == ret.op = "encode" /\ ret.exc = "none"

\* C10: under the root there are exactly one comment and one 'table' element
\* per table of the serialized structure, in its order, and none for a table
\* without rows; a 'table' holds one 'row' per record of the structure and a
\* 'row' one 'field' per column, the primary key 'id' included, named by the
\* column.
XmlOneElementPerTableRowColumn ==
    EncodeReturned =>
        LET nodes == ret.value.children
            data == Serialize(data_dict, TRUE, TRUE).value
            tables == SelectSeq(nodes, LAMBDA n : n.tag = "table")
            comments == SelectSeq(nodes, LAMBDA n : n.tag = "#comment")
        IN  /\ Len(nodes) = Len(tables) + Len(comments)
            /\ Len(comments) = Len(data)
            /\ [i \in 1..Len(tables) |-> tables[i].name] = OdKeys(data)
            /\ [i \in 1..Len(comments) |-> comments[i].text] = OdKeys(data)
            /\ {tables[i].name : i \in 1..Len(tables)} = Populated
            /\ \A i \in 1..Len(tables) :
                  /\ Len(tables[i].children) = Len(data[i][2])
                  /\ \A j \in 1..Len(tables[i].children) :
                        LET row == tables[i].children[j]
                        IN  /\ row.tag = "row"
                            /\ [k \in 1..Len(row.children) |-> row.children[k].name]
                                  = columns(tables[i].name)
                            /\ \A k \in 1..Len(row.children) :
                                  row.children[k].tag = "field"

\* C10's case: a tree with one State row and no other row was encoded, and
\* the document holds a single 'table' element, for 'uf'.
XmlOneStateWitness ==
    /\ EncodeReturned
    /\ Len(data_dict["uf"]) = 1
    /\ \A t \in DOMAIN data_dict \ {"uf"} : data_dict[t] = <<>>
    /\ SelectSeq(ret.value.children, LAMBDA n : n.tag = "table") =
          <<[tag |-> "table", name |-> "uf",
             children |-> <<RowElement(<<<<"id", Unicode(<<49>>)>>,
                                         <<"nome", Unicode(<<115, 112>>)>>>>)>>]>>

-----------------------------------------------------------------------------
(* Properties of export. *)

\* The step is a call of export.
ExportStep == nexports' = nexports + 1

\* C5: export with a format name that is not registered fails with the
\* unsupported-format error; no exporter is instantiated, no file is opened
\* or written and nothing goes to standard output.
UnsupportedFormatFailsCleanly ==
    [][(ExportStep /\ exportRet'.format \notin {"xml", "tsv", "msgpack"}) =>
          /\ exportRet'.exc = "Exception"
          /\ exportRet'.message = "Unsupported output format."
          /\ exporterCalls' = exporterCalls
          /\ files' = files
          /\ stdout' = stdout]_vars

\* C5's case: 'fictional-format' was requested with a filename, after an
\* earlier export had written a file.
UnsupportedFormatWitness ==
    /\ exportRet.op = "export"
    /\ exportRet.format = "fictional-format"
    /\ exportRet.filename = Filename("out.dat")
    /\ exportRet.exc = "Exception"
    /\ "dtb.tsv" \in DOMAIN files
    /\ "out.dat" \notin DOMAIN files

\* The data a successful export writes: text for a text format (decoded from
\* utf-8 when the exporter gave bytes), the exporter's bytes for a binary one.
Written(call) ==
    IF call.format # "msgpack" /\ call.produced.value.t = "str"
    THEN Unicode(Utf8Decode(call.produced.value.v))
    ELSE call.produced.value

\* C6: a successful export writes its data to exactly one destination: with a
\* filename, the file of that name, or 'dtb' and the format's extension for
\* 'auto', and nothing to standard output; without a filename, standard
\* output, and no file.
ExportWritesOneDestination ==
    [][(ExportStep /\ exportRet'.exc = "none") =>
          LET call == exportRet'
              name == IF call.filename.name = "auto"
                      THEN CASE call.format = "xml" -> "dtb.xml"
                             [] call.format = "tsv" -> "dtb.tsv"
                             [] call.format = "msgpack" -> "dtb.msgpack"
                      ELSE call.filename.name
          IN  IF Truthy(call.filename)
              THEN /\ DOMAIN files' = DOMAIN files \cup {name}
                   /\ files'[name].data = Written(call)
                   /\ \A n \in DOMAIN files \ {name} : files'[n] = files[n]
                   /\ stdout' = stdout
              ELSE /\ files' = files
                   /\ stdout' = Append(stdout, Written(call))]_vars

\* C6's case: an export to 'auto' in the XML format succeeded and left
\* dtb.xml, and an export without a filename wrote to standard output.
ExportDestinationWitness ==
    /\ exportRet.op = "export"
    /\ exportRet.exc = "none"
    /\ exportRet.filename = Filename("auto")
    /\ exportRet.format = "xml"
    /\ DOMAIN files = {"dtb.xml"}
    /\ files["dtb.xml"] = [mode |-> "w", data |-> Unicode(<<227>>)]
    /\ Len(stdout) = 1

\* C14: when the exporter raises while producing its data, export leaves
\* with that failure, the exporter has been called once, and the files and
\* standard output are as before the call.
ExporterFailureAbortsBeforeWriting ==
    [][(ExportStep /\ exportRet'.format \in FORMATS
            /\ exportRet'.produced.exc # "none") =>
          /\ exportRet'.exc = exportRet'.produced.exc
          /\ exporterCalls' = exporterCalls + 1
          /\ files' = files
          /\ stdout' = stdout]_vars

\* C14's case: after an export that wrote out.dat, an export to the same
\* name failed in its exporter, and out.dat still holds the first data.
ExporterFailureWitness ==
    /\ exportRet.op = "export"
    /\ exportRet.produced = ExporterRaises
    /\ exportRet.exc = "ExportError"
    /\ exportRet.filename = Filename("out.dat")
    /\ exporterCalls = 2
    /\ "out.dat" \in DOMAIN files
    /\ files["out.dat"].data = Unicode(<<227>>)

-----------------------------------------------------------------------------
(* Properties of the failure paths of the tree's operations. *)

\* C11: an error raised while XmlEncoder.encode serializes or builds its
\* document leaves the call as the generic encode error, and as no other.
EncodeFailsOnlyWithEncodeError ==
    (ret.op = "encode" /\ ret.exc # "none") => ret.exc = "EncodeError"

\* A microregion row whose id_uf differs from the id_uf of the mesoregion
\* its id_mesorregiao names.
InconsistentReference(tree) ==
    /\ "microrregiao" \in DOMAIN tree
    /\ \E i \in 1..Len(tree["microrregiao"]), j \in 1..Len(tree["mesorregiao"]) :
          /\ tree["microrregiao"][i]["id_mesorregiao"] = tree["mesorregiao"][j]["id"]
          /\ tree["microrregiao"][i]["id_uf"] # tree["mesorregiao"][j]["id_uf"]

\* C12: a tree holding a microregion whose id_uf disagrees with its
\* mesoregion's is flagged: neither toDict nor the XML encoding completes
\* on it.
InconsistentTreeIsFlagged ==
    (ret.op \in {"toDict", "encode"} /\ InconsistentReference(data_dict)) =>
        ret.exc = "InconsistentReference"

\* C13: when the parser fails, parse leaves with the parser's own error,
\* kind and content, and the tree is the one held before the call.
ParseFailurePropagatesUnchanged ==
    [][(ret' # ret /\ ret'.op = "parse" /\ ret'.exc # "none") =>
          /\ ret'.exc = ret'.raised.exc
          /\ ret'.message = ret'.raised.message
          /\ data_dict' = data_dict]_vars

\* C21: toDict does not fail for want of stored rows: on a tree whose table
\* map has no entry for a kind it returns a mapping without that table, the
\* empty mapping on a new tree.
ToDictToleratesMissingTables ==
    ret.op = "toDict" =>
        /\ ret.exc # "KeyError"
        /\ data_dict = <<>> => (ret.exc = "none" /\ ret.value = <<>>)

-----------------------------------------------------------------------------
(* Properties of Bytes. *)

\* C4: on a new buffer, after writeBoolean(true), writeInt(-42),
\* writeFloat(3.5) and writeString("sp"), the calls readBoolean, readInt,
\* readFloat and readString return true, -42, 3.5 and "sp".
ReadsReturnTheWrittenValues ==
    /\ script >= 5 => bytesRet.exc = "none"
    /\ script = 5 => bytesRet.value = PyBool(TRUE)
    /\ script = 6 => bytesRet.value = PyInt(-42)
    /\ script = 7 => bytesRet.value = PyFloat(7, -1)
    /\ script = 8 => bytesRet.value.v = <<115, 112>>

\* C16: writeByte(v) succeeds for every v in 0..255 and puts the one byte v
\* at the position; readByte at that byte returns v and moves the position
\* on by one.
WriteByteStoresTheByte ==
    [][(nwrites' = nwrites + 1 /\ bytesRet'.op = "writeByte") =>
          LET v == bytesRet'.arg.v
              back == readByte(Stream(buf', pos))
          IN  /\ bytesRet'.exc = "none"
              /\ buf' = WriteAt(buf, pos, <<v>>)
              /\ pos' = pos + 1
              /\ back.exc = "none"
              /\ back.value = PyInt(v)
              /\ back.st.pos = pos + 1]_vars

-----------------------------------------------------------------------------
(* Properties of List. *)

RECURSIVE Concat(_)
\* The chunks joined in order.
Concat(chunks) == IF chunks = <<>> THEN <<>> ELSE Head(chunks) \o Concat(Tail(chunks))

\* C17: splice(index, size) with size >= 0 removes exactly the items it
\* returns: they are at most size, and put back where they were taken they
\* give the list as it was; with size omitted, everything from index on is
\* removed and returned.
SpliceRemovesWhatItReturns ==
    (listRet.op = "splice" /\ (listRet.size = None \/ listRet.size.v >= 0)) =>
        LET at == SliceBound(listRet.index, Len(listRet.before))
        IN  /\ listRet.exc = "none"
            /\ listRet.size # None => Len(listRet.value) <= listRet.size.v
            /\ Len(items) >= at
               => SubSeq(items, 1, at) \o listRet.value
                     \o SubSeq(items, at + 1, Len(items)) = listRet.before
            /\ Len(items) + Len(listRet.value) = Len(listRet.before)
            /\ listRet.size = None =>
                  /\ items = SubSeq(listRet.before, 1, at)
                  /\ listRet.value = SubSeq(listRet.before, at + 1, Len(listRet.before))

\* C18: chunk(size) with size > 0 returns chunks that joined in order are
\* the list, each of size items but the last, which has 1 to size; no chunk
\* for an empty list; with size <= 0 it raises ValueError; the list is as
\* before in every case.
ChunkSplitsInOrder ==
    listRet.op = "chunk" =>
        /\ items = listRet.before
        /\ listRet.size.v <= 0 => listRet.exc = "ValueError"
        /\ listRet.size.v > 0 =>
              LET chunks == listRet.value
                  n == Len(chunks)
              IN  /\ listRet.exc = "none"
                  /\ Concat(chunks) = listRet.before
                  /\ listRet.before = <<>> => chunks = <<>>
                  /\ \A k \in 1..(n - 1) : Len(chunks[k]) = listRet.size.v
                  /\ n > 0 => Len(chunks[n]) \in 1..listRet.size.v

\* C18's case: a list of three items was chunked by two, giving a chunk of
\* two and a last chunk of one.
ChunkWitness ==
    /\ listRet.op = "chunk"
    /\ listRet.size = PyInt(2)
    /\ listRet.before = <<"a", "b", "c">>
    /\ listRet.value = <<<<"a", "b">>, <<"c">>>>

-----------------------------------------------------------------------------
(* Properties of Singleton. *)

\* The objects constructed for a class.
ObjectsOf(cls) == {i \in 1..Len(objects) : objects[i].cls = cls}

\* C19, in every state: at most one object has been constructed for a class,
\* the instance a class holds is of that very class, and a call that returns
\* gives the instance its class holds, an instance of the class.
OneInstancePerClass ==
    /\ \A cls \in Classes :
          /\ Cardinality(ObjectsOf(cls)) <= 1
          /\ own[cls] # 0 => objects[own[cls]].cls = cls
    /\ (singletonRet.op = "call" /\ singletonRet.exc = "none") =>
          /\ singletonRet.value = own[singletonRet.cls]
          /\ objects[singletonRet.value].cls = singletonRet.cls

\* C19, in every step: the instance a class holds is never replaced, whatever
\* class is called, and once a class holds one its constructor does not run
\* again, so the arguments of later calls are not used.
SingletonIsKept ==
    [][\A cls \in Classes :
          own[cls] # 0 =>
              /\ own'[cls] = own[cls]
              /\ runs'[cls] = runs[cls]
              /\ objects'[own[cls]] = objects[own[cls]]]_vars

-----------------------------------------------------------------------------
(* Properties of retrieve. *)

RetrieveStep == nretrieves' = nretrieves + 1

\* C20, in every call of retrieve: download is invoked exactly when the
\* cache file does not exist; an existing cache file is left as it is; and
\* after a successful call the cache file exists and the raw data of the
\* tree are its content.
RetrieveUsesTheCache ==
    [][RetrieveStep =>
          /\ retrieveRet'.downloaded = (cache = None)
          /\ cache # None => cache' = cache
          /\ retrieveRet'.exc = "none" =>
                /\ cache' # None
                /\ data_rawdata' = cache']_vars

\* C20, over the calls: while the cache file is not deleted, at most one
\* download fills it, and no retrieve that finds it downloads.
OneDownloadPerCacheFile ==
    [][/\ (cache # None /\ ~(cache' = None)) => ndownloads' = ndownloads
       /\ (RetrieveStep /\ retrieveRet'.exc = "none" /\ retrieveRet'.downloaded) =>
             cache = None]_vars

-----------------------------------------------------------------------------
(* Properties of the MessagePack exporter. *)

=============================================================================
